---- MODULE Spec2Model ----
(***************************************************************************)
(* Authentication and authorisation core of the FastAPI admin dashboard:   *)
(* the role -> permission table (app/core/permissions.py), the JWT token   *)
(* service and the request guard (app/core/security.py).                   *)
(*                                                                         *)
(* Time is counted in ticks, TicksPerSec ticks to the second, because      *)
(* datetime.utcnow() is finer than the whole seconds a JWT "exp" carries.  *)
(***************************************************************************)
EXTENDS Integers, Sequences, FiniteSets, TLC

VARIABLES
    now,               \* datetime.utcnow(), in ticks
    steps,             \* how many times the clock has been advanced
    secret,            \* settings.SECRET_KEY: the generation of the key in use
    users,             \* the User table: user id -> [role, is_active]
    bearer,            \* the token the client holds: <<>> or <<token>>
    issue,             \* how the held token came to be: <<>> or <<record>>
    resp,              \* the response to the last guarded request: <<>> or <<record>>
    ROLE_PERMISSIONS,  \* the module-level role -> permission-set table
    call               \* the last call of the permission API: <<>> or <<record>>

vars == <<now, steps, secret, users, bearer, issue, resp, ROLE_PERMISSIONS, call>>

authVars == <<now, steps, secret, users, bearer, issue, resp>>
permVars == <<ROLE_PERMISSIONS, call>>

-----------------------------------------------------------------------------
(* Bounds of the model *)

TicksPerSec == 2
MaxSteps == 2
MaxRotations == 1

-----------------------------------------------------------------------------
(* app/config.py *)

ALGORITHM == "HS256"
ACCESS_TOKEN_EXPIRE_MINUTES == 30
REFRESH_TOKEN_EXPIRE_DAYS == 7

\* timedelta(minutes=m) and timedelta(days=d), in ticks
timedelta_minutes(m) == m * 60 * TicksPerSec
timedelta_days(d) == d * 24 * 60 * 60 * TicksPerSec

-----------------------------------------------------------------------------
(* app/core/permissions.py *)

Permission ==
    {"view_dashboard", "manage_users", "edit_settings", "view_logs",
     "manage_content", "export_data", "delete_records", "manage_roles"}

Role == {"admin", "editor", "viewer"}

\* The table as the module builds it at import.
InitialRolePermissions ==
    [r \in Role |->
        CASE r = "admin"  -> Permission
          [] r = "editor" -> {"view_dashboard", "manage_content", "view_logs", "export_data"}
          [] r = "viewer" -> {"view_dashboard", "view_logs"}]

\* Role(role): the enum member of that value, or ValueError.
RoleEnum(role) ==
    IF role \in Role THEN [raised |-> FALSE, value |-> role]
                     ELSE [raised |-> TRUE, value |-> "ValueError"]

\* dict.get(key, set())
table_get(table, key) == IF key \in DOMAIN table THEN table[key] ELSE {}

\* Faulty variant: the ValueError of Role(role) is not caught.
has_permission_uncaught(table, role, permission) ==
    LET role_enum == RoleEnum(role)
    IN  IF role_enum.raised
        THEN [raised |-> TRUE, value |-> FALSE]
        ELSE [raised |-> FALSE, value |-> permission \in table_get(table, role_enum.value)]

\* Faulty variant: the editor's permissions are looked up for every recognised role
\* but admin.
has_permission_flat(table, role, permission) ==
    LET role_enum == RoleEnum(role)
    IN  IF role_enum.raised
        THEN [raised |-> FALSE, value |-> FALSE]
        ELSE [raised |-> FALSE,
              value |-> permission \in
                  table_get(table, IF role_enum.value = "admin" THEN "admin" ELSE "editor")]

has_permission(table, role, permission) ==
    LET role_enum == RoleEnum(role)
    IN  IF role_enum.raised
        THEN [raised |-> FALSE, value |-> FALSE]
        ELSE [raised |-> FALSE, value |-> permission \in table_get(table, role_enum.value)]

get_user_permissions(table, role) ==
    LET role_enum == RoleEnum(role)
    IN  IF role_enum.raised
        THEN [raised |-> FALSE, value |-> {}]
        ELSE [raised |-> FALSE, value |-> table_get(table, role_enum.value)]

\* require_permission(permission) applied to a current user of the given role:
\* the user passes, or 403.
require_permission(table, permission, role) ==
    IF ~has_permission(table, role, permission).value
    THEN [status_code |-> 403, detail |-> <<"Permission denied", permission>>]
    ELSE [status_code |-> 200, detail |-> <<"current_user", role>>]

\* The role strings the permission API is called with: the three roles, the
\* hierarchy's "manager", the empty string and other spellings.
RoleStrings == Role \cup {"manager", "", "Admin", "VIEWER", "invalid"}

HasPermission(role, permission) ==
    /\ call' = <<[fn |-> "has_permission", role |-> role, permission |-> permission,
                  result |-> has_permission(ROLE_PERMISSIONS, role, permission)]>>
    /\ UNCHANGED <<ROLE_PERMISSIONS, authVars>>

GetUserPermissions(role) ==
    /\ call' = <<[fn |-> "get_user_permissions", role |-> role,
                  result |-> get_user_permissions(ROLE_PERMISSIONS, role)]>>
    /\ UNCHANGED <<ROLE_PERMISSIONS, authVars>>

RequirePermission(permission, role) ==
    /\ call' = <<[fn |-> "require_permission", role |-> role, permission |-> permission,
                  result |-> require_permission(ROLE_PERMISSIONS, permission, role)]>>
    /\ UNCHANGED <<ROLE_PERMISSIONS, authVars>>

-----------------------------------------------------------------------------
(* Python values *)

None == "None"

\* dict.get(key): the value, or None
dict_get(d, key) == IF key \in DOMAIN d THEN d[key] ELSE None

\* the dict after d.update(upd)
dict_update(d, upd) ==
    [k \in DOMAIN d \cup DOMAIN upd |-> IF k \in DOMAIN upd THEN upd[k] ELSE d[k]]

EmptyDict == [k \in {} |-> k]

\* `expires_delta or default`: an optional timedelta is <<>> (None) or <<d>>;
\* None and timedelta(0) are both falsy.
or_default(expires_delta, default) ==
    IF expires_delta = <<>> \/ expires_delta[1] = 0 THEN default ELSE expires_delta[1]

-----------------------------------------------------------------------------
(* jose.jwt, as app/core/security.py uses it *)

\* calendar.timegm(d.utctimetuple()): a datetime as whole seconds
timegm(d) == d \div TicksPerSec

\* The signature of a payload under a key: a MAC over header and payload.
\* `flip` is set on a signature of which a byte was changed afterwards.
Sign(payload, alg, key) == [key |-> key, alg |-> alg, over |-> payload, flip |-> FALSE]

\* jwt.encode(claims, key, algorithm): a datetime "exp" becomes whole seconds.
jwt_encode(claims, key, algorithm) ==
    LET payload == [k \in DOMAIN claims |->
                       IF k = "exp" THEN timegm(claims[k]) ELSE claims[k]]
    IN  [alg |-> algorithm, payload |-> payload, sig |-> Sign(payload, algorithm, key)]

\* Faulty variant: the signature is not verified.
signature_valid_unverified(tok, key, algorithms) == TRUE

signature_valid(tok, key, algorithms) ==
    /\ tok.alg \in algorithms
    /\ tok.sig = Sign(tok.payload, tok.alg, key)

\* Faulty variant: "exp" is not validated.
exp_passed_never(payload, t) == FALSE

\* jose's "exp" validation: absent "exp" passes; otherwise the token is expired
\* when exp < now, both in whole seconds.
exp_passed(payload, t) ==
    /\ "exp" \in DOMAIN payload
    /\ payload.exp < timegm(t)

\* jwt.decode(token, key, algorithms): the payload, or a JWTError.
jwt_decode(tok, key, algorithms, t) ==
    IF ~signature_valid(tok, key, algorithms)
    THEN [ok |-> FALSE, err |-> "JWTError", payload |-> EmptyDict]
    ELSE IF exp_passed(tok.payload, t)
    THEN [ok |-> FALSE, err |-> "ExpiredSignatureError", payload |-> EmptyDict]
    ELSE [ok |-> TRUE, err |-> "", payload |-> tok.payload]

-----------------------------------------------------------------------------
(* app/core/security.py: token issuance *)

\* Faulty variant: the caller's dict is updated in place (no data.copy()).
create_access_token_inplace(data, expires_delta, t, key) ==
    LET expire == t + or_default(expires_delta,
                                 timedelta_minutes(ACCESS_TOKEN_EXPIRE_MINUTES))
        to_encode == dict_update(data, [exp |-> expire, type |-> "access"])
    IN  [token |-> jwt_encode(to_encode, key, ALGORITHM), data |-> to_encode]

\* The token, and the caller's `data` as the call leaves it.
create_access_token(data, expires_delta, t, key) ==
    LET expire == t + or_default(expires_delta,
                                 timedelta_minutes(ACCESS_TOKEN_EXPIRE_MINUTES))
        to_encode == dict_update(data, [exp |-> expire, type |-> "access"])
    IN  [token |-> jwt_encode(to_encode, key, ALGORITHM), data |-> data]

\* Faulty variant: the refresh token gets the default lifetime of an access
\* token.
create_refresh_token_short(data, expires_delta, t, key) ==
    LET expire == t + or_default(expires_delta,
                                 timedelta_minutes(ACCESS_TOKEN_EXPIRE_MINUTES))
        to_encode == dict_update(data, [exp |-> expire, type |-> "refresh"])
    IN  [token |-> jwt_encode(to_encode, key, ALGORITHM), data |-> data]

create_refresh_token(data, expires_delta, t, key) ==
    LET expire == t + or_default(expires_delta,
                                 timedelta_days(REFRESH_TOKEN_EXPIRE_DAYS))
        to_encode == dict_update(data, [exp |-> expire, type |-> "refresh"])
    IN  [token |-> jwt_encode(to_encode, key, ALGORITHM), data |-> data]

-----------------------------------------------------------------------------
(* app/core/security.py: the request guard *)

\* What a guarded request ends in.  status_code, detail and headers are what
\* the caller sees; user is the principal handed to the endpoint; trace lists
\* the steps that ran and err names the internal reason of a rejection.
Outcome(status_code, detail, headers, user, trace, err) ==
    [status_code |-> status_code, detail |-> detail, headers |-> headers,
     user |-> user, trace |-> trace, err |-> err]

\* oauth2_scheme (OAuth2PasswordBearer, auto_error on) without a bearer token
not_authenticated ==
    Outcome(401, <<"Not authenticated">>, {"WWW-Authenticate: Bearer"}, None,
            <<"oauth2_scheme">>, "NoToken")

credentials_exception(trace, err) ==
    Outcome(401, <<"Could not validate credentials">>, {"WWW-Authenticate: Bearer"},
            None, trace, err)

\* Faulty variant: the is_active check is left out.
get_current_user_noactive(tok, db, key, t) ==
    LET payload == jwt_decode(tok, key, {ALGORITHM}, t)
        user_id == dict_get(payload.payload, "sub")
    IN  IF ~payload.ok
        THEN credentials_exception(<<"oauth2_scheme", "jwt.decode">>, payload.err)
        ELSE IF user_id = None
        THEN credentials_exception(<<"oauth2_scheme", "jwt.decode">>, "NoSubject")
        ELSE IF user_id \notin DOMAIN db
        THEN credentials_exception(<<"oauth2_scheme", "jwt.decode", "select">>,
                                   "UserNotFound")
        ELSE Outcome(200, <<>>, {}, user_id,
                     <<"oauth2_scheme", "jwt.decode", "select", "is_active">>, "")

\* Faulty variant: a subject the directory does not hold is answered 404.
get_current_user_404(tok, db, key, t) ==
    LET payload == jwt_decode(tok, key, {ALGORITHM}, t)
        user_id == dict_get(payload.payload, "sub")
    IN  IF ~payload.ok
        THEN credentials_exception(<<"oauth2_scheme", "jwt.decode">>, payload.err)
        ELSE IF user_id = None
        THEN credentials_exception(<<"oauth2_scheme", "jwt.decode">>, "NoSubject")
        ELSE IF user_id \notin DOMAIN db
        THEN Outcome(404, <<"User not found">>, {}, None,
                     <<"oauth2_scheme", "jwt.decode", "select">>, "UserNotFound")
        ELSE IF ~db[user_id].is_active
        THEN Outcome(403, <<"Inactive user account">>, {}, None,
                     <<"oauth2_scheme", "jwt.decode", "select", "is_active">>,
                     "Inactive")
        ELSE Outcome(200, <<>>, {}, user_id,
                     <<"oauth2_scheme", "jwt.decode", "select", "is_active">>, "")

get_current_user(tok, db, key, t) ==
    LET payload == jwt_decode(tok, key, {ALGORITHM}, t)
        user_id == dict_get(payload.payload, "sub")
    IN  IF ~payload.ok
        THEN credentials_exception(<<"oauth2_scheme", "jwt.decode">>, payload.err)
        ELSE IF user_id = None
        THEN credentials_exception(<<"oauth2_scheme", "jwt.decode">>, "NoSubject")
        ELSE IF user_id \notin DOMAIN db
        THEN credentials_exception(<<"oauth2_scheme", "jwt.decode", "select">>,
                                   "UserNotFound")
        ELSE IF ~db[user_id].is_active
        THEN Outcome(403, <<"Inactive user account">>, {}, None,
                     <<"oauth2_scheme", "jwt.decode", "select", "is_active">>,
                     "Inactive")
        ELSE Outcome(200, <<>>, {}, user_id,
                     <<"oauth2_scheme", "jwt.decode", "select", "is_active">>, "")

\* role_hierarchy.get(role, default)
role_level(role, default) ==
    CASE role = "admin"   -> 3
      [] role = "manager" -> 2
      [] role = "viewer"  -> 1
      [] OTHER            -> default

\* Faulty variant: a required role the hierarchy does not know counts as
\* level 0, like an unknown role of the caller.
role_checker_open(required_role, tok, db, key, t) ==
    LET user == get_current_user(tok, db, key, t)
    IN  IF user.status_code # 200
        THEN user
        ELSE IF role_level(db[user.user].role, 0) < role_level(required_role, 0)
        THEN Outcome(403, <<"Role or higher is required", required_role>>, {}, None,
                     Append(user.trace, "role_hierarchy"), "RoleTooLow")
        ELSE [user EXCEPT !.trace = Append(user.trace, "role_hierarchy")]

\* Faulty variant: the level compared is that of the role claim in the token,
\* not that of the user's row.
role_checker_claim(required_role, tok, db, key, t) ==
    LET user == get_current_user(tok, db, key, t)
    IN  IF user.status_code # 200
        THEN user
        ELSE IF role_level(dict_get(tok.payload, "role"), 0) < role_level(required_role, 99)
        THEN Outcome(403, <<"Role or higher is required", required_role>>, {}, None,
                     Append(user.trace, "role_hierarchy"), "RoleTooLow")
        ELSE [user EXCEPT !.trace = Append(user.trace, "role_hierarchy")]

\* require_role(required_role), the role_checker it returns
role_checker(required_role, tok, db, key, t) ==
    LET user == get_current_user(tok, db, key, t)
    IN  IF user.status_code # 200
        THEN user
        ELSE IF role_level(db[user.user].role, 0) < role_level(required_role, 99)
        THEN Outcome(403, <<"Role or higher is required", required_role>>, {}, None,
                     Append(user.trace, "role_hierarchy"), "RoleTooLow")
        ELSE [user EXCEPT !.trace = Append(user.trace, "role_hierarchy")]

\* The guarded endpoints of the mounted routers and the dependency of each:
\* get_current_user, or require_role of a role.
Endpoints == {"/auth/me", "/dashboard/stats", "/dashboard/system", "/dashboard/users"}

RequiredRole(endpoint) ==
    IF endpoint \in {"/dashboard/system", "/dashboard/users"} THEN <<"admin">> ELSE <<>>

\* Faulty variant: the bearer scheme does not reject a request without a token
\* (auto_error off), and decoding the missing token fails.
Guard_optional(endpoint, header, db, key, t) ==
    IF header = <<>>
    THEN credentials_exception(<<"oauth2_scheme", "jwt.decode">>, "JWTError")
    ELSE IF RequiredRole(endpoint) = <<>>
    THEN get_current_user(header[1], db, key, t)
    ELSE role_checker(RequiredRole(endpoint)[1], header[1], db, key, t)

\* The dependency chain of an endpoint on a request whose Authorization header
\* is `header`: <<>> without a bearer token, <<token>> with one.
Guard(endpoint, header, db, key, t) ==
    IF header = <<>>
    THEN not_authenticated
    ELSE IF RequiredRole(endpoint) = <<>>
    THEN get_current_user(header[1], db, key, t)
    ELSE role_checker(RequiredRole(endpoint)[1], header[1], db, key, t)

-----------------------------------------------------------------------------
(* The state machine *)

UserIds == {"u1"}

\* A row of the User table, as far as the guard reads it.
UserRows == [role : Role, is_active : BOOLEAN]

\* The directories: any set of user ids, each with a row.
Directories == UNION {[ids -> UserRows] : ids \in SUBSET UserIds}

\* The `data` dicts tokens are issued for: those of login ({sub, role} for an
\* access token, {sub} for a refresh token), one without subject, and one that
\* brings its own "type" and "exp".
LoginData == {[sub |-> "u1", role |-> r] : r \in Role}

DataSet ==
    LoginData \cup
    {[sub |-> "u1"], [role |-> "admin"],
     [sub |-> "u1", role |-> "viewer", type |-> "refresh", exp |-> 0]}

\* The expires_delta arguments: None, timedelta(0), one second.
Deltas == {<<>>, <<0>>, <<TicksPerSec>>}

\* The calls of the issuing functions: each data dict with the default
\* lifetime, and the admin's login data with each expires_delta.
IssueArgs ==
    (DataSet \X {<<>>}) \cup ({[sub |-> "u1", role |-> "admin"]} \X Deltas)

\* The steps the clock is moved by: a tick and the two default lifetimes.
ClockSteps ==
    {1, timedelta_minutes(ACCESS_TOKEN_EXPIRE_MINUTES),
     timedelta_days(REFRESH_TOKEN_EXPIRE_DAYS)}

\* The key of a party that does not hold the server's secret.
ForeignKey == 0 - 1

\* Payloads of tokens made outside create_access_token / create_refresh_token:
\* with each of the claims sub, exp, type left out, or all present.
FarFuture == 4 * 7 * 24 * 60 * 60

CraftPayloads ==
    {[sub |-> "u1", exp |-> FarFuture, type |-> "access"],
     [sub |-> "u1", type |-> "access"],
     [sub |-> "u1", exp |-> FarFuture],
     [exp |-> FarFuture, type |-> "access"],
     [sub |-> "u1"]}

Init ==
    /\ now = 0
    /\ steps = 0
    /\ secret = 0
    /\ users \in Directories
    /\ bearer = <<>>
    /\ issue = <<>>
    /\ resp = <<>>
    /\ ROLE_PERMISSIONS = InitialRolePermissions
    /\ call = <<>>

\* Time passes.
Advance(d) ==
    /\ steps < MaxSteps
    /\ now' = now + d
    /\ steps' = steps + 1
    /\ resp' = <<>>
    /\ UNCHANGED <<secret, users, bearer, issue, permVars>>

\* The process is restarted with a new SECRET_KEY, one never used before.
RotateSecret ==
    /\ secret < MaxRotations
    /\ secret' = secret + 1
    /\ resp' = <<>>
    /\ UNCHANGED <<now, steps, users, bearer, issue, permVars>>

IssueAccess(data, expires_delta) ==
    LET made == create_access_token(data, expires_delta, now, secret)
    IN  /\ bearer' = <<made.token>>
        /\ issue' = <<[by |-> "create_access_token", at |-> now, key |-> secret,
                       data |-> data, expires_delta |-> expires_delta,
                       data_after |-> made.data, token |-> made.token]>>
        /\ resp' = <<>>
        /\ UNCHANGED <<now, steps, secret, users, permVars>>

IssueRefresh(data, expires_delta) ==
    LET made == create_refresh_token(data, expires_delta, now, secret)
    IN  /\ bearer' = <<made.token>>
        /\ issue' = <<[by |-> "create_refresh_token", at |-> now, key |-> secret,
                       data |-> data, expires_delta |-> expires_delta,
                       data_after |-> made.data, token |-> made.token]>>
        /\ resp' = <<>>
        /\ UNCHANGED <<now, steps, secret, users, permVars>>

\* The holder of an issued token changes it: a byte of the signature, or the
\* role claim of the payload.
Tamper(how) ==
    /\ bearer # <<>>
    /\ issue # <<>>
    /\ bearer[1] = issue[1].token
    /\ bearer' =
         <<CASE how = "signature" -> [bearer[1] EXCEPT !.sig.flip = TRUE]
             [] how = "payload" ->
                  [bearer[1] EXCEPT !.payload = dict_update(@, [role |-> "admin"])]>>
    /\ resp' = <<>>
    /\ UNCHANGED <<now, steps, secret, users, issue, permVars>>

\* A token encoded outside the two issuing functions, under the server's
\* current key or a foreign one: the guard takes any string as its token.
Craft(payload, key) ==
    /\ bearer' = <<[alg |-> ALGORITHM, payload |-> payload,
                    sig |-> Sign(payload, ALGORITHM, key)]>>
    /\ issue' = <<>>
    /\ resp' = <<>>
    /\ UNCHANGED <<now, steps, secret, users, permVars>>

\* app/api/users.py update_user_role, past its admin guard
UpdateUserRole(user_id, role) ==
    /\ user_id \in DOMAIN users
    /\ role \in {"admin", "editor", "viewer"}
    /\ users' = [users EXCEPT ![user_id].role = role]
    /\ resp' = <<>>
    /\ UNCHANGED <<now, steps, secret, bearer, issue, permVars>>

\* app/api/users.py delete_user, past its admin guard
DeleteUser(user_id) ==
    /\ user_id \in DOMAIN users
    /\ users' = [u \in DOMAIN users \ {user_id} |-> users[u]]
    /\ resp' = <<>>
    /\ UNCHANGED <<now, steps, secret, bearer, issue, permVars>>

\* A request to a guarded endpoint, with the held token or without one.
Request(endpoint, header) ==
    /\ resp' = <<[endpoint |-> endpoint, header |-> header,
                  out |-> Guard(endpoint, header, users, secret, now)]>>
    /\ UNCHANGED <<now, steps, secret, users, bearer, issue, permVars>>

Next ==
    \/ \E d \in ClockSteps : Advance(d)
    \/ \E a \in IssueArgs : IssueAccess(a[1], a[2])
    \/ \E a \in IssueArgs : IssueRefresh(a[1], a[2])
    \/ \E how \in {"signature", "payload"} : Tamper(how)
    \/ \E payload \in CraftPayloads, key \in {secret, ForeignKey} : Craft(payload, key)
    \/ \E u \in UserIds, r \in Role : UpdateUserRole(u, r)
    \/ \E u \in UserIds : DeleteUser(u)
    \/ \E e \in Endpoints, h \in {<<>>, bearer} : Request(e, h)

Spec == Init /\ [][Next]_vars

\* The guard while the secret is rotated: the clock moves by whole refresh
\* lifetimes and the directory stays as it started.
NextRotate ==
    \/ RotateSecret
    \/ Advance(timedelta_days(REFRESH_TOKEN_EXPIRE_DAYS))
    \/ \E a \in IssueArgs : IssueAccess(a[1], a[2])
    \/ \E a \in IssueArgs : IssueRefresh(a[1], a[2])
    \/ \E how \in {"signature", "payload"} : Tamper(how)
    \/ \E payload \in CraftPayloads, key \in {secret, ForeignKey} : Craft(payload, key)
    \/ \E e \in Endpoints, h \in {<<>>, bearer} : Request(e, h)

SpecRotate == Init /\ [][NextRotate]_vars

\* The is_active flag of a user is cleared in the directory.  No handler of
\* the core does it; the directory is shared with whoever administers it.
Deactivate(user_id) ==
    /\ user_id \in DOMAIN users
    /\ users[user_id].is_active
    /\ users' = [users EXCEPT ![user_id].is_active = FALSE]
    /\ resp' = <<>>
    /\ UNCHANGED <<now, steps, secret, bearer, issue, permVars>>

\* The dependency require_role(required_role) on a request whose
\* Authorization header is `header`.
GuardRole(required_role, header, db, key, t) ==
    IF header = <<>>
    THEN not_authenticated
    ELSE role_checker(required_role, header[1], db, key, t)

\* The role strings require_role is constructed with: those of its hierarchy,
\* the Role enum's "editor", and one no table knows.
RequiredRoles == {"admin", "manager", "editor", "viewer", "superuser"}

\* The role strings a row of the User table may hold: the role column is a
\* plain string, and the hierarchy of require_role names "manager".
StoredRoles == Role \cup {"manager", "guest"}

DirectoriesAnyRole ==
    UNION {[ids -> [role : StoredRoles, is_active : BOOLEAN]] : ids \in SUBSET UserIds}

InitRole ==
    /\ now = 0
    /\ steps = 0
    /\ secret = 0
    /\ users \in DirectoriesAnyRole
    /\ bearer = <<>>
    /\ issue = <<>>
    /\ resp = <<>>
    /\ ROLE_PERMISSIONS = InitialRolePermissions
    /\ call = <<>>

\* A request to an endpoint that depends on require_role(required_role).
RoleRequest(required_role, header) ==
    /\ resp' = <<[endpoint |-> "require_role", required_role |-> required_role,
                  header |-> header,
                  out |-> GuardRole(required_role, header, users, secret, now)]>>
    /\ UNCHANGED <<now, steps, secret, users, bearer, issue, permVars>>

\* The role guard with every required role, over directories of any role.
NextRole ==
    \/ Advance(timedelta_minutes(ACCESS_TOKEN_EXPIRE_MINUTES))
    \/ \E a \in IssueArgs : IssueAccess(a[1], a[2])
    \/ \E a \in IssueArgs : IssueRefresh(a[1], a[2])
    \/ \E u \in UserIds, r \in Role : UpdateUserRole(u, r)
    \/ \E u \in UserIds : DeleteUser(u)
    \/ \E u \in UserIds : Deactivate(u)
    \/ \E r \in RequiredRoles, h \in {<<>>, bearer} : RoleRequest(r, h)

SpecRole == InitRole /\ [][NextRole]_vars

-----------------------------------------------------------------------------
(* app/api/auth.py: register and login *)

\* pwd_context (bcrypt): the hash of a secret under a salt.  The checksum is a
\* one-way image of salt and secret.
bcrypt(plain, salt) ==
    [scheme |-> "bcrypt", salt |-> salt, checksum |-> <<"bcrypt", salt, plain>>]

\* get_password_hash: pwd_context.hash draws the salt
get_password_hash(password, salt) == bcrypt(password, salt)

\* verify_password: the plain password hashed under the salt of the stored
\* hash gives the stored hash
verify_password(plain_password, hashed_password) ==
    bcrypt(plain_password, hashed_password.salt) = hashed_password

\* User(username=, email=, hashed_password=, full_name=): the row, with the
\* defaults of the columns the constructor call leaves out.
User(username, email, hashed_password, full_name) ==
    [username |-> username, email |-> email, hashed_password |-> hashed_password,
     full_name |-> full_name, role |-> "viewer", is_active |-> TRUE]

\* The response model of register and /me
UserResponse(id, user) ==
    [id |-> id, username |-> user.username, email |-> user.email,
     full_name |-> user.full_name, role |-> user.role, is_active |-> user.is_active]

\* The response model of login
TokenResponse(access_token, refresh_token) ==
    [access_token |-> access_token, refresh_token |-> refresh_token,
     token_type |-> "bearer"]

\* What register or login answers: body is <<>> on an error and <<model>> on
\* success; err names the internal reason and is not sent.
Reply(status_code, detail, headers, body, err) ==
    [status_code |-> status_code, detail |-> detail, headers |-> headers,
     body |-> body, err |-> err]

\* Result.scalar_one_or_none() on the ids a select matched: the one row, None
\* for no row, MultipleResultsFound for more than one.
scalar_one_or_none(rows) ==
    IF Cardinality(rows) > 1
    THEN [raised |-> TRUE, value |-> None]
    ELSE IF rows = {}
    THEN [raised |-> FALSE, value |-> None]
    ELSE [raised |-> FALSE, value |-> CHOOSE u \in rows : TRUE]

\* An exception no handler catches: get_db rolls the session back and the
\* server answers 500.
internal_server_error(err) == Reply(500, <<"Internal Server Error">>, {}, <<>>, err)

\* register: the reply and the User table as the handler leaves it.  new_id is
\* the id the database gives the row, salt the one the hash draws.
register(user_data, db, new_id, salt) ==
    LET result == {u \in DOMAIN db : \/ db[u].username = user_data.username
                                     \/ db[u].email = user_data.email}
        existing == scalar_one_or_none(result)
        new_user == User(user_data.username, user_data.email,
                         get_password_hash(user_data.password, salt),
                         user_data.full_name)
    IN  IF existing.raised
        THEN [out |-> internal_server_error("MultipleResultsFound"), db |-> db]
        ELSE IF existing.value # None
        THEN [out |-> Reply(409, <<"Username or email already registered">>, {}, <<>>,
                            "Conflict"),
              db |-> db]
        ELSE [out |-> Reply(201, <<>>, {}, <<UserResponse(new_id, new_user)>>, ""),
              db |-> [u \in DOMAIN db \cup {new_id} |->
                         IF u = new_id THEN new_user ELSE db[u]]]

\* Faulty variant: an unknown username is told apart from a wrong password.
login_telling(form_data, db, key, t) ==
    LET result == {u \in DOMAIN db : db[u].username = form_data.username}
        user == scalar_one_or_none(result)
    IN  IF user.raised
        THEN [out |-> internal_server_error("MultipleResultsFound"), made |-> <<>>]
        ELSE IF user.value = None
        THEN [out |-> Reply(404, <<"User not found">>, {}, <<>>, "UnknownUser"),
              made |-> <<>>]
        ELSE IF ~verify_password(form_data.password, db[user.value].hashed_password)
        THEN [out |-> Reply(401, <<"Incorrect username or password">>,
                            {"WWW-Authenticate: Bearer"}, <<>>, "WrongPassword"),
              made |-> <<>>]
        ELSE IF ~db[user.value].is_active
        THEN [out |-> Reply(403, <<"Account is deactivated">>, {}, <<>>, "Inactive"),
              made |-> <<>>]
        ELSE LET data == [sub |-> user.value, role |-> db[user.value].role]
                 delta == <<timedelta_minutes(ACCESS_TOKEN_EXPIRE_MINUTES)>>
                 access == create_access_token(data, delta, t, key)
                 refresh == create_refresh_token([sub |-> user.value], <<>>, t, key)
             IN  [out |-> Reply(200, <<>>, {},
                                <<TokenResponse(access.token, refresh.token)>>, ""),
                  made |-> <<[by |-> "create_access_token", at |-> t, key |-> key,
                              data |-> data, expires_delta |-> delta,
                              data_after |-> access.data, token |-> access.token]>>]

\* login: the reply, and the record of the create_access_token call it made
login(form_data, db, key, t) ==
    LET result == {u \in DOMAIN db : db[u].username = form_data.username}
        user == scalar_one_or_none(result)
    IN  IF user.raised
        THEN [out |-> internal_server_error("MultipleResultsFound"), made |-> <<>>]
        ELSE IF user.value = None
        THEN [out |-> Reply(401, <<"Incorrect username or password">>,
                            {"WWW-Authenticate: Bearer"}, <<>>, "UnknownUser"),
              made |-> <<>>]
        ELSE IF ~verify_password(form_data.password, db[user.value].hashed_password)
        THEN [out |-> Reply(401, <<"Incorrect username or password">>,
                            {"WWW-Authenticate: Bearer"}, <<>>, "WrongPassword"),
              made |-> <<>>]
        ELSE IF ~db[user.value].is_active
        THEN [out |-> Reply(403, <<"Account is deactivated">>, {}, <<>>, "Inactive"),
              made |-> <<>>]
        ELSE LET data == [sub |-> user.value, role |-> db[user.value].role]
                 delta == <<timedelta_minutes(ACCESS_TOKEN_EXPIRE_MINUTES)>>
                 access == create_access_token(data, delta, t, key)
                 refresh == create_refresh_token([sub |-> user.value], <<>>, t, key)
             IN  [out |-> Reply(200, <<>>, {},
                                <<TokenResponse(access.token, refresh.token)>>, ""),
                  made |-> <<[by |-> "create_access_token", at |-> t, key |-> key,
                              data |-> data, expires_delta |-> delta,
                              data_after |-> access.data, token |-> access.token]>>]

\* The ids the database gives to rows of the User table.
AuthIds == {"u1", "u2", "u3"}

Usernames == {"alice", "bob"}
Emails == {"alice@x.com", "bob@x.com"}
Passwords == {"Secr3t!", "wrongpass"}
Salts == {"salt1", "salt2"}

\* The bodies of POST /register (UserCreate) and the forms of POST /login.
RegisterBodies ==
    [username : Usernames, email : Emails, password : Passwords, full_name : {None}]

LoginForms == [username : Usernames, password : Passwords]

\* POST /api/v1/auth/register
Register(user_data) ==
    \E new_id \in AuthIds \ DOMAIN users, salt \in Salts :
        LET done == register(user_data, users, new_id, salt)
        IN  /\ users' = done.db
            /\ resp' = <<[endpoint |-> "/auth/register", header |-> <<>>,
                          form |-> user_data, before |-> users, out |-> done.out]>>
            /\ UNCHANGED <<now, steps, secret, bearer, issue, permVars>>

\* POST /api/v1/auth/login; the client keeps the access token of a 200.
Login(form_data) ==
    LET done == login(form_data, users, secret, now)
    IN  /\ resp' = <<[endpoint |-> "/auth/login", header |-> <<>>,
                      form |-> form_data, before |-> users, out |-> done.out]>>
        /\ IF done.made = <<>>
           THEN UNCHANGED <<bearer, issue>>
           ELSE bearer' = <<done.made[1].token>> /\ issue' = done.made
        /\ UNCHANGED <<now, steps, secret, users, permVars>>

\* The server starts on an empty User table.
InitAuth ==
    /\ now = 0
    /\ steps = 0
    /\ secret = 0
    /\ users = [u \in {} |-> None]
    /\ bearer = <<>>
    /\ issue = <<>>
    /\ resp = <<>>
    /\ ROLE_PERMISSIONS = InitialRolePermissions
    /\ call = <<>>

\* Accounts: registration, login and the administration of the rows.
NextAuth ==
    \/ \E user_data \in RegisterBodies : Register(user_data)
    \/ \E form_data \in LoginForms : Login(form_data)
    \/ \E u \in AuthIds, r \in {"admin", "viewer"} : UpdateUserRole(u, r)
    \/ \E u \in AuthIds : DeleteUser(u)
    \/ \E u \in AuthIds : Deactivate(u)

SpecAuth == InitAuth /\ [][NextAuth]_vars

\* A session: the one registered user, of any role, logs in, time passes, the
\* row is changed or deleted, and the token is presented.
InitSession ==
    /\ now = 0
    /\ steps = 0
    /\ secret = 0
    /\ \E r \in Role, a \in BOOLEAN :
          users = [u \in {"u1"} |->
                     [User("alice", "alice@x.com", get_password_hash("Secr3t!", "salt1"),
                           None) EXCEPT !.role = r, !.is_active = a]]
    /\ bearer = <<>>
    /\ issue = <<>>
    /\ resp = <<>>
    /\ ROLE_PERMISSIONS = InitialRolePermissions
    /\ call = <<>>

NextSession ==
    \/ \E d \in {1, timedelta_minutes(ACCESS_TOKEN_EXPIRE_MINUTES)} : Advance(d)
    \/ \E form_data \in LoginForms : Login(form_data)
    \/ \E u \in UserIds, r \in Role : UpdateUserRole(u, r)
    \/ \E u \in UserIds : DeleteUser(u)
    \/ \E u \in UserIds : Deactivate(u)
    \/ \E e \in Endpoints, h \in {<<>>, bearer} : Request(e, h)

SpecSession == InitSession /\ [][NextSession]_vars

\* The permission API alone.
NextPerm ==
    \/ \E r \in RoleStrings, p \in Permission : HasPermission(r, p)
    \/ \E r \in RoleStrings : GetUserPermissions(r)
    \/ \E r \in RoleStrings, p \in Permission : RequirePermission(p, r)

SpecPerm == Init /\ [][NextPerm]_vars

\* The permissions a caller adds to or discards from a set it was returned.
CallerPermissions == {"manage_users", "view_dashboard"}

\* The caller of get_user_permissions changes the set it holds, by set.add or
\* set.discard.  For a recognised role the set returned is the object the
\* table holds under that role (ROLE_PERMISSIONS.get returns it, no copy is
\* made); for any other role it is a new empty set.
CallerChanges(change, permission) ==
    /\ call # <<>>
    /\ call[1].fn = "get_user_permissions"
    /\ LET held == call[1].result.value
           changed == IF change = "add" THEN held \cup {permission}
                                        ELSE held \ {permission}
       IN  /\ call' = <<[call[1] EXCEPT !.result.value = changed]>>
           /\ ROLE_PERMISSIONS' =
                 IF ~RoleEnum(call[1].role).raised
                 THEN [ROLE_PERMISSIONS EXCEPT ![call[1].role] = changed]
                 ELSE ROLE_PERMISSIONS
    /\ UNCHANGED authVars

\* The permission API and callers that use the sets it returns.
NextAlias ==
    \/ NextPerm
    \/ \E change \in {"add", "discard"}, p \in CallerPermissions : CallerChanges(change, p)

SpecAlias == Init /\ [][NextAlias]_vars

-----------------------------------------------------------------------------
(* The permission table *)

\* The table of the specification, section 4.3, written out.
FixedTable(role) ==
    CASE role = "admin" ->
           {"view_dashboard", "manage_users", "edit_settings", "view_logs",
            "manage_content", "export_data", "delete_records", "manage_roles"}
      [] role = "editor" ->
           {"view_dashboard", "manage_content", "view_logs", "export_data"}
      [] role = "viewer" -> {"view_dashboard", "view_logs"}

\* C1: for every role of {admin, editor, viewer} and every permission, the
\* answer of has_permission is membership of the permission in the fixed
\* table, whatever was called before; it is never an exception.
C1_HasPermissionMatchesTable ==
    (call # <<>> /\ call[1].fn = "has_permission" /\ call[1].role \in {"admin", "editor", "viewer"})
        => /\ ~call[1].result.raised
           /\ call[1].result.value = (call[1].permission \in FixedTable(call[1].role))

\* has_permission has answered that the viewer may not export data.
C1_Witness ==
    /\ call # <<>>
    /\ call[1].fn = "has_permission"
    /\ call[1].role = "viewer"
    /\ call[1].permission = "export_data"
    /\ call[1].result.value = FALSE

\* C2: for every role string outside {admin, editor, viewer}, has_permission
\* answers false for every permission and get_user_permissions answers the
\* empty set, and neither raises.
C2_UnknownRoleFailsClosed ==
    (call # <<>> /\ call[1].role \notin {"admin", "editor", "viewer"})
        => /\ call[1].fn = "has_permission"
                => (~call[1].result.raised /\ call[1].result.value = FALSE)
           /\ call[1].fn = "get_user_permissions"
                => (~call[1].result.raised /\ call[1].result.value = {})

\* has_permission has been asked about the differently-cased role "Admin".
C2_Witness ==
    /\ call # <<>>
    /\ call[1].fn = "has_permission"
    /\ call[1].role = "Admin"
    /\ call[1].permission = "view_dashboard"
    /\ call[1].result.value = FALSE

-----------------------------------------------------------------------------
(* The guard: what the claims speak of *)

\* The last request carried a bearer token.
Presented == resp # <<>> /\ resp[1].header # <<>>

\* The token's signature is the MAC of its own header and payload under the
\* key and algorithm now configured, untouched.
GoodSignature(tok) ==
    /\ tok.alg = "HS256"
    /\ tok.sig.alg = tok.alg
    /\ tok.sig.key = secret
    /\ tok.sig.over = tok.payload
    /\ ~tok.sig.flip

\* The token carries no "exp", or the clock has not left the second "exp" names.
Unexpired(tok) ==
    "exp" \in DOMAIN tok.payload => now < (tok.payload.exp + 1) * TicksPerSec

\* The token names a subject and the directory holds that user.
SubjectKnown(tok) ==
    /\ "sub" \in DOMAIN tok.payload
    /\ tok.payload.sub \in DOMAIN users

\* The token the last request carried is the one the issuing function returned.
PresentedAsIssued ==
    /\ Presented
    /\ issue # <<>>
    /\ resp[1].header[1] = issue[1].token

\* The lifetime a token was issued with: the expires_delta given, or the
\* configured default of its kind.
Lifetime ==
    IF issue[1].expires_delta # <<>> /\ issue[1].expires_delta[1] # 0
    THEN issue[1].expires_delta[1]
    ELSE IF issue[1].by = "create_access_token"
         THEN 30 * 60 * TicksPerSec
         ELSE 7 * 24 * 60 * 60 * TicksPerSec

\* C3: a refresh token presented to the guard is rejected and never reaches
\* Authorized, even when validly signed, unexpired and naming an active user.
\* (The claim says more, that the rejection is a 401; a request that is
\* authorized refutes it either way.)
C3_RefreshTokenRejected ==
    (Presented /\ "type" \in DOMAIN resp[1].header[1].payload
               /\ resp[1].header[1].payload.type = "refresh")
        => /\ resp[1].out.status_code # 200
           /\ resp[1].out.user = None

\* C7: a token lacking one of the claims sub, exp, type is rejected and never
\* reaches Authorized, even when its signature verifies.  (The claim says
\* more, that the rejection is a 401; a request that is authorized refutes it
\* either way.)
C7_MissingClaimRejected ==
    (Presented /\ ~({"sub", "exp", "type"} \subseteq DOMAIN resp[1].header[1].payload))
        => /\ resp[1].out.status_code # 200
           /\ resp[1].out.user = None

\* C8: a request without a bearer token is rejected with 401 on every guarded
\* endpoint, and nothing but the bearer extraction has run: no token
\* validation, no directory lookup, no role check.
C8_NoTokenRejectedFirst ==
    (resp # <<>> /\ resp[1].header = <<>>)
        => /\ resp[1].out.status_code = 401
           /\ resp[1].out.user = None
           /\ resp[1].out.trace = <<"oauth2_scheme">>

\* A request without a token has been made to the admin-only /dashboard/system
\* by a client that holds a valid token of an active admin.
C8_Witness ==
    /\ resp # <<>>
    /\ resp[1].header = <<>>
    /\ resp[1].endpoint = "/dashboard/system"
    /\ bearer # <<>>
    /\ Guard("/dashboard/system", bearer, users, secret, now).status_code = 200

\* C10: a request whose token validates and whose subject resolves to a user
\* with is_active = false is rejected with 403 "Inactive user account" on
\* every guarded endpoint, whatever the user's role; the active check runs
\* after the lookup and the role comparison does not run at all.
C10_InactiveRejected ==
    (Presented /\ GoodSignature(resp[1].header[1]) /\ Unexpired(resp[1].header[1])
               /\ SubjectKnown(resp[1].header[1])
               /\ ~users[resp[1].header[1].payload.sub].is_active)
        => /\ resp[1].out.status_code = 403
           /\ resp[1].out.detail = <<"Inactive user account">>
           /\ resp[1].out.user = None
           /\ resp[1].out.trace = <<"oauth2_scheme", "jwt.decode", "select", "is_active">>

\* An inactive admin has presented a valid access token to the admin-only
\* /dashboard/users.
C10_Witness ==
    /\ PresentedAsIssued
    /\ issue[1].by = "create_access_token"
    /\ resp[1].endpoint = "/dashboard/users"
    /\ Unexpired(resp[1].header[1])
    /\ SubjectKnown(resp[1].header[1])
    /\ users[resp[1].header[1].payload.sub] = [role |-> "admin", is_active |-> FALSE]
    /\ resp[1].out.status_code = 403

-----------------------------------------------------------------------------
(* Expiry *)

\* C4, as claimed: a token issued at t0 with lifetime TTL is rejected at every
\* time now > t0 + TTL.  (The claim says more, that the rejection is a 401; a
\* request that is authorized refutes it either way.)
C4_RejectedAfterLifetime ==
    (PresentedAsIssued /\ now > issue[1].at + Lifetime)
        => /\ resp[1].out.status_code # 200
           /\ resp[1].out.user = None

\* From one second past t0 + TTL on, the issued token is rejected with 401
\* while it is decoded, before any lookup.
RejectedFromNextSecond ==
    (PresentedAsIssued /\ now >= issue[1].at + Lifetime + TicksPerSec)
        => /\ resp[1].out.status_code = 401
           /\ resp[1].out.detail = <<"Could not validate credentials">>
           /\ resp[1].out.user = None
           /\ resp[1].out.trace = <<"oauth2_scheme", "jwt.decode">>

\* A token the guard rejects as expired is rejected after the next step too,
\* whatever the step does, as long as it is the same token.
ExpiredStaysRejected ==
    \A e \in Endpoints :
        (/\ bearer # <<>>
         /\ bearer' = bearer
         /\ Guard(e, bearer, users, secret, now).err = "ExpiredSignatureError")
            => Guard(e, bearer', users', secret', now').status_code = 401

\* C4, amended: a token issued at t0 with lifetime TTL (the expires_delta
\* given, or the default of 30 minutes or 7 days when it is None or zero) is
\* rejected with 401 at every time now >= t0 + TTL + 1 s, access and refresh
\* token alike; and a token once rejected as expired is rejected at every
\* later time.
C4_RejectedFromNextSecond ==
    [][RejectedFromNextSecond' /\ ExpiredStaysRejected]_vars

\* A refresh token issued to an active user with the default lifetime of 7
\* days has been presented later than that, and rejected as expired.
C4_Witness ==
    /\ PresentedAsIssued
    /\ issue[1].by = "create_refresh_token"
    /\ issue[1].expires_delta = <<>>
    /\ now >= issue[1].at + Lifetime + TicksPerSec
    /\ SubjectKnown(resp[1].header[1])
    /\ users[resp[1].header[1].payload.sub].is_active
    /\ resp[1].out.err = "ExpiredSignatureError"

-----------------------------------------------------------------------------
(* Round trip *)

\* An access token has just been issued for {sub, role} with the default
\* lifetime, and neither the clock, the secret nor the token has changed.
JustIssuedAccess ==
    /\ issue # <<>>
    /\ issue[1].by = "create_access_token"
    /\ DOMAIN issue[1].data = {"sub", "role"}
    /\ issue[1].expires_delta = <<>>
    /\ issue[1].at = now
    /\ issue[1].key = secret
    /\ bearer = <<issue[1].token>>

\* Decoding the held token now succeeds and gives back subject and role, with
\* type = access; and the caller's data is as it was.
RoundTripClaims ==
    LET decoded == jwt_decode(bearer[1], secret, {"HS256"}, now)
    IN  /\ decoded.ok
        /\ DOMAIN decoded.payload = {"sub", "role", "type", "exp"}
        /\ decoded.payload.sub = issue[1].data.sub
        /\ decoded.payload.role = issue[1].data.role
        /\ decoded.payload.type = "access"
        /\ issue[1].data_after = issue[1].data

\* C5, as claimed: the round trip gives exp = t0 + access TTL.
C5_RoundTripExact ==
    JustIssuedAccess
        => /\ RoundTripClaims
           /\ bearer[1].payload.exp * TicksPerSec = issue[1].at + 30 * 60 * TicksPerSec

\* C5, amended: validating at t0 the access token issued at t0 for {sub, role}
\* succeeds and yields subject = sub, role = r, type = access and exp = t0 +
\* access TTL cut down to whole seconds; the caller's data is not modified.
C5_RoundTripWholeSeconds ==
    JustIssuedAccess
        => /\ RoundTripClaims
           /\ bearer[1].payload.exp * TicksPerSec <= issue[1].at + 30 * 60 * TicksPerSec
           /\ issue[1].at + 30 * 60 * TicksPerSec < (bearer[1].payload.exp + 1) * TicksPerSec

\* An access token has just been issued for the viewer u1 at a time that is
\* not a whole second.
C5_Witness ==
    /\ JustIssuedAccess
    /\ issue[1].data = [sub |-> "u1", role |-> "viewer"]
    /\ now % TicksPerSec # 0
    /\ jwt_decode(bearer[1], secret, {"HS256"}, now).ok

-----------------------------------------------------------------------------
(* Signature and secret *)

\* A presented token whose signature does not verify under the secret and
\* algorithm now configured is rejected with the generic 401.
BadSignatureRejected ==
    (Presented /\ ~GoodSignature(resp[1].header[1]))
        => /\ resp[1].out.status_code = 401
           /\ resp[1].out.detail = <<"Could not validate credentials">>
           /\ resp[1].out.user = None

\* A held token signed under another key than the current secret is rejected
\* after the next step too, whatever the step does: once rotated away, always
\* rejected.
OldSecretStaysRejected ==
    \A e \in Endpoints :
        (/\ bearer # <<>>
         /\ bearer' = bearer
         /\ bearer[1].sig.key # secret)
            => Guard(e, bearer', users', secret', now').status_code = 401

\* C6: a token whose signature does not verify under the current secret and
\* algorithm is always rejected with 401; so after a rotation of the secret
\* (to a key not used before) every token issued under the old one is
\* rejected from then on, whatever its expiry, kind or subject.
C6_BadSignatureRejected ==
    [][BadSignatureRejected' /\ OldSecretStaysRejected]_vars

\* A token issued under the old secret, unexpired and naming an active user,
\* has been presented after the rotation and rejected.
C6_Witness ==
    /\ PresentedAsIssued
    /\ issue[1].key # secret
    /\ Unexpired(resp[1].header[1])
    /\ SubjectKnown(resp[1].header[1])
    /\ users[resp[1].header[1].payload.sub].is_active
    /\ resp[1].out.status_code = 401

-----------------------------------------------------------------------------
(* One answer for every failed validation *)

\* What the caller sees of an outcome.
Public(out) ==
    [status_code |-> out.status_code, detail |-> out.detail, headers |-> out.headers]

\* The last request carried a validly signed, unexpired token naming a
\* subject the directory does not hold.
UnknownSubjectPresented ==
    /\ Presented
    /\ GoodSignature(resp[1].header[1])
    /\ Unexpired(resp[1].header[1])
    /\ "sub" \in DOMAIN resp[1].header[1].payload
    /\ resp[1].header[1].payload.sub \notin DOMAIN users

\* The same token with a byte of its signature changed.
WithBadSignature(tok) == [tok EXCEPT !.sig.flip = TRUE]

\* The same token without its subject, signed again under the secret.
WithoutSubject(tok) ==
    LET payload == [k \in DOMAIN tok.payload \ {"sub"} |-> tok.payload[k]]
    IN  [alg |-> tok.alg, payload |-> payload,
         sig |-> [key |-> secret, alg |-> tok.alg, over |-> payload, flip |-> FALSE]]

\* C9: the response to a validly signed, unexpired token whose subject the
\* directory does not hold is the 401 "Could not validate credentials", and
\* is the very response the same endpoint gives at that moment to the token
\* with a bad signature, to the token without subject and, once its exp has
\* passed, to the expired token.
C9_UnknownSubjectIndistinguishable ==
    UnknownSubjectPresented =>
        LET e == resp[1].endpoint
            tok == resp[1].header[1]
            badsig == Guard(e, <<WithBadSignature(tok)>>, users, secret, now)
            nosub == Guard(e, <<WithoutSubject(tok)>>, users, secret, now)
        IN  /\ Public(resp[1].out) =
                 [status_code |-> 401, detail |-> <<"Could not validate credentials">>,
                  headers |-> {"WWW-Authenticate: Bearer"}]
            /\ badsig.err = "JWTError" /\ Public(badsig) = Public(resp[1].out)
            /\ nosub.err = "NoSubject" /\ Public(nosub) = Public(resp[1].out)
            /\ "exp" \in DOMAIN tok.payload =>
                 LET expired == Guard(e, <<tok>>, users, secret,
                                      (tok.payload.exp + 1) * TicksPerSec)
                 IN  /\ expired.err = "ExpiredSignatureError"
                     /\ Public(expired) = Public(resp[1].out)

\* The access token issued to the admin u1 has been presented while the
\* directory holds no u1.
C9_Witness ==
    /\ PresentedAsIssued
    /\ UnknownSubjectPresented
    /\ issue[1].by = "create_access_token"
    /\ issue[1].data = [sub |-> "u1", role |-> "admin"]
    /\ resp[1].out.err = "UserNotFound"

-----------------------------------------------------------------------------
(* The role hierarchy *)

\* The last request went through require_role and carried a token that
\* validates and names an active user of the directory.
RolePresentedByActive ==
    /\ Presented
    /\ resp[1].endpoint = "require_role"
    /\ GoodSignature(resp[1].header[1])
    /\ Unexpired(resp[1].header[1])
    /\ SubjectKnown(resp[1].header[1])
    /\ users[resp[1].header[1].payload.sub].is_active

\* The role of the user the presented token names.
CallerRole == users[resp[1].header[1].payload.sub].role

\* The hierarchy as the specification has it: admin = 3, editor/manager = 2,
\* viewer = 1.
ClaimedLevel(role) ==
    CASE role = "admin"   -> 3
      [] role = "editor"  -> 2
      [] role = "manager" -> 2
      [] role = "viewer"  -> 1

\* C11: require_role(R) authorizes an active caller iff the caller's level is
\* at least R's in the hierarchy admin = 3, editor/manager = 2, viewer = 1,
\* and answers 403 otherwise; so an editor passes a viewer requirement and is
\* rejected with 403 on an admin requirement.
C11_HierarchyWithEditor ==
    (/\ RolePresentedByActive
     /\ CallerRole \in {"admin", "editor", "manager", "viewer"}
     /\ resp[1].required_role \in {"admin", "editor", "manager", "viewer"})
        => IF ClaimedLevel(CallerRole) >= ClaimedLevel(resp[1].required_role)
           THEN resp[1].out.status_code = 200
           ELSE resp[1].out.status_code = 403

\* C16: require_role built with a required role outside its hierarchy
\* {admin, manager, viewer} authorizes nobody and answers every authenticated
\* active caller, an admin included, with 403; and a caller whose stored role
\* is outside the hierarchy gets 403 from every require_role whose required
\* role is in it.
C16_UnknownRoleFailsClosed ==
    /\ (resp # <<>> /\ resp[1].endpoint = "require_role"
                    /\ resp[1].required_role \notin {"admin", "manager", "viewer"})
          => resp[1].out.status_code # 200 /\ resp[1].out.user = None
    /\ (/\ RolePresentedByActive
        /\ \/ resp[1].required_role \notin {"admin", "manager", "viewer"}
           \/ CallerRole \notin {"admin", "manager", "viewer"})
          => /\ resp[1].out.status_code = 403
             /\ resp[1].out.detail = <<"Role or higher is required", resp[1].required_role>>
             /\ resp[1].out.user = None

\* An active admin has presented a valid token to require_role("superuser")
\* and got 403.
C16_Witness ==
    /\ RolePresentedByActive
    /\ CallerRole = "admin"
    /\ resp[1].required_role = "superuser"
    /\ resp[1].out.status_code = 403

-----------------------------------------------------------------------------
(* Login and registration *)

\* What the client sees of a reply.
PublicReply(out) ==
    [status_code |-> out.status_code, detail |-> out.detail,
     headers |-> out.headers, body |-> out.body]

\* The last request was a login; the User table is as the handler read it.
LoginAnswered == resp # <<>> /\ resp[1].endpoint = "/auth/login"

\* The stored users that hold the submitted username / whose stored hash the
\* submitted password verifies against.
Holders == {u \in DOMAIN users : users[u].username = resp[1].form.username}

Verified ==
    {u \in Holders : verify_password(resp[1].form.password, users[u].hashed_password)}

\* The one reply to a login that fails on its credentials.
InvalidCredentials ==
    [status_code |-> 401, detail |-> <<"Incorrect username or password">>,
     headers |-> {"WWW-Authenticate: Bearer"}, body |-> <<>>]

\* The token pair of a 200 is the pair issued now for user u: an access
\* token with u's id and stored role, a refresh token with u's id.
PairIssuedFor(u) ==
    LET body == resp[1].out.body[1]
        access == jwt_decode(body.access_token, secret, {"HS256"}, now)
        refresh == jwt_decode(body.refresh_token, secret, {"HS256"}, now)
    IN  /\ body.token_type = "bearer"
        /\ access.ok
        /\ access.payload.sub = u
        /\ access.payload.role = users[u].role
        /\ access.payload.type = "access"
        /\ refresh.ok
        /\ refresh.payload.sub = u
        /\ refresh.payload.type = "refresh"
        /\ DOMAIN refresh.payload = {"sub", "exp", "type"}

\* C12: login answers 200 with a token pair iff the username is that of a
\* stored user, the password verifies against that user's stored hash and the
\* user is active, and the pair is issued for that user; an unknown username
\* and a wrong password get the same 401 reply, equal in status, detail,
\* headers and body; and no reply other than the 200 carries a token.
C12_LoginGeneric401 ==
    LoginAnswered =>
        /\ resp[1].out.status_code = 200
              <=> \E u \in Verified : users[u].is_active
        /\ resp[1].out.status_code = 200
              => \E u \in Verified : PairIssuedFor(u) /\ bearer = <<resp[1].out.body[1].access_token>>
        /\ resp[1].out.status_code # 200 => resp[1].out.body = <<>>
        /\ Verified = {} => PublicReply(resp[1].out) = InvalidCredentials
        /\ (Verified # {} /\ resp[1].out.status_code # 200)
              => /\ resp[1].out.status_code = 403
                 /\ resp[1].out.detail = <<"Account is deactivated">>

\* A login with a stored username and a password that is not the user's has
\* been answered, while a user with another username is stored too.
C12_Witness ==
    /\ LoginAnswered
    /\ Holders # {}
    /\ Verified = {}
    /\ \E u \in DOMAIN users : u \notin Holders
    /\ resp[1].out.err = "WrongPassword"
    /\ bearer # <<>>

\* The last request was a register.
RegisterAnswered == resp # <<>> /\ resp[1].endpoint = "/auth/register"

\* A user stored before the request holds the submitted username or email.
AlreadyHeld ==
    \E u \in DOMAIN resp[1].before :
        \/ resp[1].before[u].username = resp[1].form.username
        \/ resp[1].before[u].email = resp[1].form.email

\* The User table is the one before the request plus one row, which holds the
\* submitted username and email and a hash of the submitted password.
OneUserStored ==
    \E new_id \in DOMAIN users \ DOMAIN resp[1].before :
        /\ DOMAIN users = DOMAIN resp[1].before \cup {new_id}
        /\ \A u \in DOMAIN resp[1].before : users[u] = resp[1].before[u]
        /\ users[new_id].username = resp[1].form.username
        /\ users[new_id].email = resp[1].form.email
        /\ verify_password(resp[1].form.password, users[new_id].hashed_password)
        /\ "password" \notin DOMAIN users[new_id]
        /\ users[new_id].hashed_password.scheme = "bcrypt"
        /\ resp[1].out.body = <<UserResponse(new_id, users[new_id])>>

\* C13: a register with a username or an email a stored user already holds is
\* answered 409 and leaves the User table as it was; any other register is
\* answered 201, stores exactly one new user, with the hash of the password
\* and not the password, and its response has no password field.
C13_DuplicateRegister409 ==
    RegisterAnswered =>
        IF AlreadyHeld
        THEN resp[1].out.status_code = 409 /\ users = resp[1].before
        ELSE /\ resp[1].out.status_code = 201
             /\ OneUserStored
             /\ DOMAIN resp[1].out.body[1] \cap {"password", "hashed_password"} = {}

-----------------------------------------------------------------------------
(* The directory decides at request time *)

\* The last request presented, unchanged, an access token that login issued
\* to an admin, to an endpoint that requires the admin role.
AdminTokenPresented ==
    /\ PresentedAsIssued
    /\ issue[1].by = "create_access_token"
    /\ issue[1].data.role = "admin"
    /\ RequiredRole(resp[1].endpoint) = <<"admin">>

\* C17: for an access token issued to an admin, whatever role changes,
\* deactivations and deletions followed, an admin-only request is authorized
\* iff the token is still valid and the user it names is now in the directory,
\* active and of role admin; and a request that is not authorized hands no
\* user to the endpoint.
C17_DirectoryDecides ==
    AdminTokenPresented =>
        /\ resp[1].out.status_code = 200
              <=> /\ GoodSignature(issue[1].token)
                  /\ Unexpired(issue[1].token)
                  /\ issue[1].data.sub \in DOMAIN users
                  /\ users[issue[1].data.sub].is_active
                  /\ users[issue[1].data.sub].role = "admin"
        /\ resp[1].out.status_code = 200 => resp[1].out.user = issue[1].data.sub
        /\ resp[1].out.status_code # 200 => resp[1].out.user = None

\* The admin was demoted after the login, and the token, still valid, has
\* been refused on an admin-only endpoint.
C17_Witness ==
    /\ AdminTokenPresented
    /\ Unexpired(issue[1].token)
    /\ issue[1].data.sub \in DOMAIN users
    /\ users[issue[1].data.sub].is_active
    /\ users[issue[1].data.sub].role # "admin"
    /\ resp[1].out.status_code = 403

-----------------------------------------------------------------------------
(* Refresh tokens *)

\* create_refresh_token was the last issuing call.
RefreshIssued == issue # <<>> /\ issue[1].by = "create_refresh_token"

\* C14: every refresh token issued has type = refresh and exp = issue time +
\* refresh lifetime, and carries no role claim, whatever was passed to
\* create_refresh_token.
C14_RefreshNoRoleExactExp ==
    RefreshIssued =>
        /\ issue[1].token.payload.type = "refresh"
        /\ issue[1].token.payload.exp * TicksPerSec = issue[1].at + Lifetime
        /\ "role" \notin DOMAIN issue[1].token.payload

\* C14, as the code has it: every refresh token issued has type = refresh
\* and exp = issue time + lifetime cut down to whole seconds, the lifetime
\* being the expires_delta passed or 7 days; its other claims are those of the
\* data passed, so it carries a role claim iff the data does.
C14_RefreshCopiesData ==
    RefreshIssued =>
        /\ issue[1].token.payload.type = "refresh"
        /\ issue[1].token.payload.exp = (issue[1].at + Lifetime) \div TicksPerSec
        /\ DOMAIN issue[1].token.payload = DOMAIN issue[1].data \cup {"exp", "type"}
        /\ \A k \in DOMAIN issue[1].data \ {"exp", "type"} :
              issue[1].token.payload[k] = issue[1].data[k]
        /\ issue[1].expires_delta = <<>>
              => Lifetime = 7 * 24 * 60 * 60 * TicksPerSec

\* A refresh token has been issued, within a second, for data that carries a
\* role and claims of its own for type and exp.
C14_Witness ==
    /\ RefreshIssued
    /\ issue[1].data = [sub |-> "u1", role |-> "viewer", type |-> "refresh", exp |-> 0]
    /\ issue[1].at % TicksPerSec # 0
    /\ issue[1].token.payload.role = "viewer"

-----------------------------------------------------------------------------
(* The permission table and the sets handed out *)

\* C15: in every reachable state the table has one entry per role, none of
\* them empty, admin has every permission, and the table is the one the
\* module built: no call of the permission API and no use of a set that
\* get_user_permissions returned changes it.
C15_TableReadOnly ==
    /\ DOMAIN ROLE_PERMISSIONS = Role
    /\ \A r \in Role : ROLE_PERMISSIONS[r] # {}
    /\ ROLE_PERMISSIONS["admin"] = Permission
    /\ ROLE_PERMISSIONS = InitialRolePermissions

====
